---- MODULE Spec2Model ----
(***************************************************************************)
(* fspubsub: a file-system backed event stream.                            *)
(*                                                                         *)
(* The model covers the subscriber's delivery goroutine (sub.watch), the   *)
(* consumer-facing operations (Close, Queue, Done, Error), the publisher   *)
(* (pub.Publish / store.WriteEvent) and the event codec                    *)
(* (store.DecodeEvent), together with the two collaborators the code       *)
(* talks to: the file system and the notify library's watch channel.       *)
(*                                                                         *)
(* Go channels are modelled by what the runtime does: a buffered channel   *)
(* is a bounded FIFO, a send on a full channel blocks, a receive on a      *)
(* closed channel yields the buffered values first and the zero value      *)
(* afterwards, a send on a closed channel and a close of a closed channel  *)
(* panic, and a select with several ready cases takes any of them.         *)
(***************************************************************************)
EXTENDS Integers, Sequences, FiniteSets, TLC

\* ------------------------------------------------------------------ bounds

\* Number of file writes (publishes and direct writes) in one behaviour.
MaxWrites == 3
\* Number of Close calls the consumer makes in one behaviour.
MaxClose == 2
\* Number of writes in one behaviour of the burst specification.
MaxBurst == 12
\* Number of publishes in a burst that carry another record than the first.
MaxAlt == 1
\* Number of NewStream calls one caller makes in one behaviour.
MaxCalls == 2
\* Number of changes made to the stream directory's path from outside.
MaxSetup == 1
\* Number of file writes in one behaviour with two subscribers.
MaxTwo == 2
\* Number of Close calls on the second subscriber in one behaviour.
MaxClose2 == 1
\* Number of Subscribe calls made on one subscriber in one behaviour.
MaxSubscribe == 3

\* ------------------------------------------------------- program constants

\* const defaultBufferSize = 10: capacity of the notification channel c and
\* of the delivery queue.
defaultBufferSize == 10

\* make(chan error, 1): capacity of the error channel.
errchCap == 1

\* ------------------------------------------------------------- value sets

\* Identities uuid.NewRandom can return. Identities are interchangeable, so
\* a fresh identity is always the first unused one of this sequence.
IDs == <<"u01", "u02", "u03", "u04", "u05", "u06", "u07", "u08", "u09", "u10", "u11", "u12", "u13">>

\* The name the tests write malformed data under, directly in the directory.
BadName == "bad"

\* The name of a subdirectory made inside the stream directory.
SubName == "sub"

Names == {IDs[i] : i \in 1..Len(IDs)} \cup {BadName, SubName}

\* Values of the stream's event type, TestEvent{Text string}.
Records == {[Text |-> "foobar"], [Text |-> "bazqux"]}

NoFile == [body |-> <<>>, mode |-> "none"]

Nil == [kind |-> "nil", path |-> ""]

NoEvent == [ID |-> "", Data |-> [Text |-> ""]]

NoInfo == [path |-> "", seq |-> 0]

\* ------------------------------------------------------------------ codec

\* An encoder that leaves the field out.
Marshal_NoText(r) == <<"{", "}">>

\* json.Marshal of a TestEvent: the object {"Text": "<text>"} as a token list.
Marshal(r) == <<"{", "Text", ":", "string", r.Text, "}">>

\* The body the "bad event data" test writes: {"Text": 42}.
BadBody == <<"{", "Text", ":", "number", "42", "}">>

\* A decode that leaves the freshly allocated value untouched.
Unmarshal_Zero(b) == [Text |-> ""]

\* json.Unmarshal into a TestEvent: fails unless the body is an object whose
\* Text member is a JSON string.
UnmarshalOK(b) ==
  /\ Len(b) = 6
  /\ b[1] = "{" /\ b[2] = "Text" /\ b[3] = ":" /\ b[6] = "}"
  /\ b[4] = "string"

\* json.Unmarshal into a TestEvent: the decoded value.
Unmarshal(b) == [Text |-> b[5]]

\* ioutil.ReadFile: fails when the file is missing or its mode denies reading.
ReadOK(f) == f.mode = "0666"

\* filepath.Base of <dir>/<name>: paths are modelled by the file name.
Base(path) == path

\* store.DecodeEvent: the error it returns, Nil when it succeeds.
DecodeErr(f, path) ==
  IF ~ReadOK(f) THEN [kind |-> "read", path |-> path]
  ELSE IF ~UnmarshalOK(f.body) THEN [kind |-> "unmarshal", path |-> path]
  ELSE Nil

\* store.DecodeEvent: the Event it returns when it succeeds.
DecodeEvent(f, path) == [ID |-> Base(path), Data |-> Unmarshal(f.body)]

\* ------------------------------------------------------------------ state

VARIABLES
  fs,         \* the stream directory: file name -> file
  watched,    \* the subscriber's channel c is registered with notify
  c,          \* the notification channel (capacity defaultBufferSize)
  queue,      \* s.queue, the delivery queue (capacity defaultBufferSize)
  errch,      \* s.errch: [buf, closed]
  done,       \* s.done is closed: the completion signal has fired
  err,        \* s.err, the terminal error
  pc,         \* position of the delivery goroutine
  ei,         \* watch: the notification being handled
  tmp,        \* watch: the decoded event or the error about to be sent
  panicked,   \* the process has crashed with a run-time panic
  lastPub,    \* result of the last Publish: [id, err]
  hist,       \* history: what has happened so far (not read by the program)
  pubs,       \* concurrent Publish calls: caller -> position and locals
  dirst,      \* the stream directory's own path: what is there, what is denied
  ctor,       \* concurrent NewStream calls: caller -> position and locals
  rd,         \* result of the last Fetch
  sub2,       \* a second subscriber on the same directory: all its fields
  opened,     \* s.opened of the variant with a separate Subscribe step
  cb,         \* the callback helper's goroutine: position, events passed on
  dumped      \* the last Dump, DumpSorted or DumpSortedReverse: listing, result

vars == <<fs, watched, c, queue, errch, done, err, pc, ei, tmp, panicked, lastPub, hist,
          pubs, dirst, ctor, rd, sub2, opened, cb, dumped>>

NoPub == [id |-> "", err |-> "none", rec |-> [Text |-> ""]]

\* The callers that run Publish concurrently, and those that run NewStream.
Pubs == {"p1", "p2"}

Ctors == {"k1", "k2"}

\* The event types a stream is made for (the tests' TestEvent and BadEvent),
\* and the run-time types of the values handed to Publish: a value of either
\* struct type, or a pointer to a TestEvent.
StreamTypes == {"TestEvent", "BadEvent"}

EventTypes == StreamTypes \cup {"*TestEvent"}

NoValue == [type |-> "", rec |-> [Text |-> ""]]

\* A caller that has not made its Publisher yet: no stream, no call running.
NoPublisher == [pc |-> "new", id |-> "", ev |-> NoValue, data |-> <<>>, res |-> "none",
                stype |-> "", raced |-> FALSE]

\* A NewStream call that has not started.
IdleCtor == [pc |-> "idle", event |-> "none", saw |-> "none", res |-> "none",
             stream |-> FALSE, made |-> FALSE, calls |-> 0, sdir |-> <<>>]

\* The stream directory as NewStream left it: it exists, nothing is denied.
DirReady == [kind |-> "dir", deny |-> "none", setups |-> 0]

NoRead == [called |-> FALSE, id |-> "", e |-> NoEvent, err |-> Nil, npubs |-> 0]

\* The callback helper before it is started: no goroutine, nothing passed
\* to the callback, no event in hand.
NoCallback == [pc |-> "none", passed |-> <<>>, ev |-> NoEvent, left |-> 0]

\* Before any bulk read: no call made, nothing listed, nothing returned.
NoDump == [op |-> "none", etype |-> "", entries |-> <<>>, base |-> <<>>,
           es |-> <<>>, err |-> Nil, panic |-> FALSE]

\* The second subscriber before NewSubscriber: the fields of Subscriber, the
\* channel c, the goroutine's position and locals, and its history.
NoSub == [watched |-> FALSE, c |-> <<>>, queue |-> <<>>,
          errch |-> [buf |-> <<>>, closed |-> FALSE], done |-> FALSE, err |-> Nil,
          pc |-> "new", ei |-> NoInfo, tmp |-> [e |-> NoEvent, err |-> Nil],
          seen |-> <<>>, pushed |-> <<>>, closes |-> 0]

Init ==
  /\ fs = [n \in Names |-> NoFile]
  /\ watched = FALSE
  /\ c = <<>>
  /\ queue = <<>>
  /\ errch = [buf |-> <<>>, closed |-> FALSE]
  /\ done = FALSE
  /\ err = Nil
  /\ pc = "new"
  /\ ei = NoInfo
  /\ tmp = [e |-> NoEvent, err |-> Nil]
  /\ panicked = FALSE
  /\ lastPub = NoPub
  /\ hist = [writes |-> 0, closes |-> 0, doneCloses |-> 0,
             reported |-> <<>>, pushed |-> <<>>, fails |-> <<>>,
             pubs |-> <<>>, closedEarly |-> FALSE, atDone |-> 0,
             watchErr |-> FALSE, subscribes |-> <<>>]
  /\ pubs = [p \in Pubs |-> NoPublisher]
  /\ dirst = DirReady
  /\ ctor = [k \in Ctors |-> IdleCtor]
  /\ rd = NoRead
  /\ sub2 = NoSub
  /\ opened = FALSE
  /\ cb = NoCallback
  /\ dumped = NoDump

\* ------------------------------------------------------- Go channel rules

\* A panic ends the process: no goroutine takes another step.
Running == ~panicked

\* A send that never waits for room.
CanSend_Always(buf, cap) == TRUE

\* A buffered send can proceed when the buffer has room or the channel is
\* closed (in which case it panics).
CanSend(buf, cap) == Len(buf) < cap

\* A receive can proceed when a value is buffered or the channel is closed.
CanRecv(ch) == ch.buf # <<>> \/ ch.closed

\* A receive that lets the closed flag win over values still buffered.
RecvValue_ClosedFirst(ch) == IF ch.closed THEN Nil ELSE Head(ch.buf)

\* The value a receive yields: buffered values first, then the zero value of
\* a closed channel.
RecvValue(ch) == IF ch.buf # <<>> THEN Head(ch.buf) ELSE Nil

\* What a receive leaves in the buffer.
RecvRest(ch) == IF ch.buf # <<>> THEN Tail(ch.buf) ELSE ch.buf

\* ---------------------------------------------------------- Change Source

\* A channel that always has room.
Accepts_Always(chan) == TRUE

\* notify delivers an InCloseWrite event for `path` to a registered channel
\* with a non-blocking send: the event is dropped when the channel is full.
Accepts(chan) == Len(chan) < defaultBufferSize

\* The same delivery to the second subscriber's channel, when registered.
Deliver(s, path) ==
  IF s.watched
  THEN [s EXCEPT !.c = IF Accepts(@)
                       THEN Append(@, [path |-> path, seq |-> Len(s.seen) + 1])
                       ELSE @,
                 !.seen = Append(@, [path |-> path, accepted |-> Accepts(s.c),
                                     w |-> hist.writes + 1])]
  ELSE s

Notify(path, pub) ==
  /\ sub2' = Deliver(sub2, path)
  /\ IF watched
     THEN LET n  == Len(hist.reported) + 1
              ok == Accepts(c)
          IN /\ c' = IF ok THEN Append(c, [path |-> path, seq |-> n]) ELSE c
             /\ hist' = [hist EXCEPT !.writes = @ + 1,
                                     !.reported = Append(@, [path |-> path, accepted |-> ok,
                                                             w |-> hist.writes + 1]),
                                     !.pubs = @ \o [i \in 1..Len(pub) |->
                                                [id |-> pub[i].id, rec |-> pub[i].rec,
                                                 watched |-> TRUE, accepted |-> ok]]]
     ELSE /\ c' = c
          /\ hist' = [hist EXCEPT !.writes = @ + 1,
                                  !.pubs = @ \o [i \in 1..Len(pub) |->
                                             [id |-> pub[i].id, rec |-> pub[i].rec,
                                              watched |-> FALSE, accepted |-> FALSE]]]

\* --------------------------------------------------------------- publisher

\* Number of identities already naming a file.
Used == Cardinality({i \in 1..Len(IDs) : fs[IDs[i]] # NoFile})

\* uuid.NewRandom: an identity already in use, or the next fresh one.
NewRandom == {IDs[i] : i \in 1..Used} \cup (IF Used < Len(IDs) THEN {IDs[Used + 1]} ELSE {})

\* An existence check that never finds the path.
StatOK_Never(id) == FALSE

\* os.Stat(path) succeeds: the path exists in some form.
StatOK(id) == fs[id] # NoFile

\* ioutil.WriteFile(path, data, 0666) on a path that does not exist.
WriteFile(id, data) == [fs EXCEPT ![id] = [body |-> data, mode |-> "0666"]]

\* Publisher.Publish / Stream.WriteEvent of a record of the stream's type.
Publish(limit, recs, ids) ==
  /\ Running
  /\ hist.writes < limit
  /\ \E r \in recs, id \in ids :
       IF StatOK(id)
       THEN /\ lastPub' = [id |-> id, err |-> "IDCollisionError", rec |-> r]
            /\ hist' = [hist EXCEPT !.writes = @ + 1]
            /\ UNCHANGED <<fs, c, sub2>>
       ELSE /\ fs' = WriteFile(id, Marshal(r))
            /\ lastPub' = [id |-> id, err |-> "nil", rec |-> r]
            /\ Notify(id, <<[id |-> id, rec |-> r]>>)
  /\ UNCHANGED <<watched, queue, errch, done, err, pc, ei, tmp, panicked,
               pubs, dirst, ctor, rd, opened, cb, dumped>>

\* A process writes a file directly into the stream directory with
\* ioutil.WriteFile(dir + "/bad", body, perm), as the tests' Pubfunc does:
\* the file is created with perm, or an existing writable file is rewritten.
DirectWrite(limit) ==
  /\ Running
  /\ hist.writes < limit
  /\ fs[BadName].mode # "0000"
  /\ \E f \in {[body |-> BadBody, mode |-> "0666"],
               [body |-> Marshal([Text |-> ""]), mode |-> "0000"]} :
       fs' = [fs EXCEPT ![BadName] =
                [body |-> f.body,
                 mode |-> IF fs[BadName] = NoFile THEN f.mode ELSE fs[BadName].mode]]
  /\ Notify(BadName, <<>>)
  /\ UNCHANGED <<watched, queue, errch, done, err, pc, ei, tmp, panicked, lastPub,
               pubs, dirst, ctor, rd, opened, cb, dumped>>

\* -------------------------------------------------------------- subscriber

\* NewSubscriber: the channels are made, c is registered with notify.Watch
\* and the goroutine running watch is started.
NewSubscriber ==
  /\ Running
  /\ pc = "new"
  /\ watched' = TRUE
  /\ pc' = "select"
  /\ UNCHANGED <<fs, c, queue, errch, done, err, ei, tmp, panicked, lastPub, hist,
               pubs, dirst, ctor, rd, sub2, opened, cb, dumped>>

\* watch, select case ei := <-c.
WatchRecvInfo ==
  /\ Running
  /\ pc = "select"
  /\ c # <<>>
  /\ ei' = Head(c)
  /\ c' = Tail(c)
  /\ pc' = "decode"
  /\ UNCHANGED <<fs, watched, queue, errch, done, err, tmp, panicked, lastPub, hist,
               pubs, dirst, ctor, rd, sub2, opened, cb, dumped>>

\* A failure path that stores the error in s.err itself.
OnDecodeError_SetsErr(x) == [tmp |-> [e |-> NoEvent, err |-> x], pc |-> "senderr", err |-> x]

\* watch, `if err != nil`: the error is kept for the send on s.errch; s.err
\* is not assigned here.
OnDecodeError(x) == [tmp |-> [e |-> NoEvent, err |-> x], pc |-> "senderr", err |-> err]

\* watch, decode succeeded: the event is kept for the send on s.queue.
OnDecoded(e) == [tmp |-> [e |-> e, err |-> Nil], pc |-> "sendqueue", err |-> err]

\* watch: e, err := store.DecodeEvent(ei.Path(), ...).
WatchDecode ==
  /\ Running
  /\ pc = "decode"
  /\ LET f  == fs[ei.path]
         x  == DecodeErr(f, ei.path)
         nx == IF x # Nil THEN OnDecodeError(x) ELSE OnDecoded(DecodeEvent(f, ei.path))
     IN /\ tmp' = nx.tmp
        /\ pc' = nx.pc
        /\ err' = nx.err
        /\ hist' = IF x # Nil
                   THEN [hist EXCEPT !.fails =
                           Append(@, [err |-> x, pushed |-> Len(hist.pushed)])]
                   ELSE hist
  /\ UNCHANGED <<fs, watched, c, queue, errch, done, ei, panicked, lastPub,
               pubs, dirst, ctor, rd, sub2, opened, cb, dumped>>

\* Where watch continues after `s.errch <- err; break`: the break leaves the
\* select statement, not the for loop.
AfterBreak == "select"

\* watch: s.errch <- err.
WatchSendErr ==
  /\ Running
  /\ pc = "senderr"
  /\ IF errch.closed
     THEN /\ panicked' = TRUE
          /\ UNCHANGED <<errch, pc>>
     ELSE /\ CanSend(errch.buf, errchCap)
          /\ errch' = [errch EXCEPT !.buf = Append(@, tmp.err)]
          /\ pc' = AfterBreak
          /\ UNCHANGED panicked
  /\ UNCHANGED <<fs, watched, c, queue, done, err, ei, tmp, lastPub, hist,
               pubs, dirst, ctor, rd, sub2, opened, cb, dumped>>

\* A push that puts the event in front of the events already queued.
Push_Front(q, e) == <<e>> \o q

\* The queue after a push.
Push(q, e) == Append(q, e)

\* watch: s.queue <- e.
WatchSendQueue ==
  /\ Running
  /\ pc = "sendqueue"
  /\ CanSend(queue, defaultBufferSize)
  /\ queue' = Push(queue, tmp.e)
  /\ hist' = [hist EXCEPT !.pushed = Append(@, [seq |-> ei.seq, e |-> tmp.e])]
  /\ pc' = "select"
  /\ UNCHANGED <<fs, watched, c, errch, done, err, ei, tmp, panicked, lastPub,
               pubs, dirst, ctor, rd, sub2, opened, cb, dumped>>

\* watch, select case s.err = <-s.errch.
WatchRecvErr ==
  /\ Running
  /\ pc = "select"
  /\ CanRecv(errch)
  /\ err' = RecvValue(errch)
  /\ errch' = [errch EXCEPT !.buf = RecvRest(errch)]
  /\ pc' = "closedone"
  /\ UNCHANGED <<fs, watched, c, queue, done, ei, tmp, panicked, lastPub, hist,
               pubs, dirst, ctor, rd, sub2, opened, cb, dumped>>

\* A terminal branch without its return: the loop goes round again.
AfterCloseDone_Loop == "select"

\* Where watch continues after close(s.done): `return`, which runs the
\* deferred notify.Stop(c).
AfterCloseDone == "stop"

\* watch: close(s.done).
WatchCloseDone ==
  /\ Running
  /\ pc = "closedone"
  /\ hist' = [hist EXCEPT !.doneCloses = @ + 1, !.atDone = Len(hist.pushed)]
  /\ IF done
     THEN /\ panicked' = TRUE
          /\ UNCHANGED <<done, pc>>
     ELSE /\ done' = TRUE
          /\ pc' = AfterCloseDone
          /\ UNCHANGED panicked
  /\ UNCHANGED <<fs, watched, c, queue, errch, err, ei, tmp, lastPub,
               pubs, dirst, ctor, rd, sub2, opened, cb, dumped>>

\* A watch that returns without the deferred notify.Stop(c).
WatchStop_NoStop ==
  /\ Running
  /\ pc = "stop"
  /\ pc' = "returned"
  /\ UNCHANGED <<fs, watched, c, queue, errch, done, err, ei, tmp, panicked, lastPub, hist,
                 pubs, dirst, ctor, rd, sub2, opened, cb, dumped>>

\* watch: defer notify.Stop(c), run when watch returns.
WatchStop ==
  /\ Running
  /\ pc = "stop"
  /\ watched' = FALSE
  /\ pc' = "returned"
  /\ UNCHANGED <<fs, c, queue, errch, done, err, ei, tmp, panicked, lastPub, hist,
               pubs, dirst, ctor, rd, sub2, opened, cb, dumped>>

\* The steps of the delivery goroutine.
Watch ==
  \/ WatchRecvInfo
  \/ WatchDecode
  \/ WatchSendErr
  \/ WatchSendQueue
  \/ WatchRecvErr
  \/ WatchCloseDone
  \/ WatchStop

\* A Close that also writes the terminal error itself.
Close_SetsErr ==
  /\ Running
  /\ pc # "new"
  /\ hist.closes < MaxClose
  /\ hist' = [hist EXCEPT !.closes = @ + 1,
                          !.closedEarly = @ \/ (hist.closes = 0 /\ hist.reported = <<>>)]
  /\ err' = [kind |-> "closed", path |-> ""]
  /\ IF errch.closed
     THEN /\ panicked' = TRUE
          /\ UNCHANGED errch
     ELSE /\ errch' = [errch EXCEPT !.closed = TRUE]
          /\ UNCHANGED panicked
  /\ UNCHANGED <<fs, watched, c, queue, done, pc, ei, tmp, lastPub,
                 pubs, dirst, ctor, rd, sub2, opened, cb, dumped>>

\* Subscriber.Close: close(s.errch).
Close ==
  /\ Running
  /\ pc # "new"
  /\ hist.closes < MaxClose
  /\ hist' = [hist EXCEPT !.closes = @ + 1,
                          !.closedEarly = @ \/ (hist.closes = 0 /\ hist.reported = <<>>)]
  /\ IF errch.closed
     THEN /\ panicked' = TRUE
          /\ UNCHANGED errch
     ELSE /\ errch' = [errch EXCEPT !.closed = TRUE]
          /\ UNCHANGED panicked
  /\ UNCHANGED <<fs, watched, c, queue, done, err, pc, ei, tmp, lastPub,
               pubs, dirst, ctor, rd, sub2, opened, cb, dumped>>

\* The consumer receives from Queue().
ConsumerRecv ==
  /\ Running
  /\ queue # <<>>
  /\ queue' = Tail(queue)
  /\ UNCHANGED <<fs, watched, c, errch, done, err, pc, ei, tmp, panicked, lastPub, hist,
               pubs, dirst, ctor, rd, sub2, opened, cb, dumped>>

\* ---------------------------------------------------------- specifications

Next ==
  \/ NewSubscriber
  \/ Publish(MaxWrites, Records, NewRandom)
  \/ DirectWrite(MaxWrites)
  \/ WatchRecvInfo
  \/ WatchDecode
  \/ WatchSendErr
  \/ WatchSendQueue
  \/ WatchRecvErr
  \/ WatchCloseDone
  \/ WatchStop
  \/ Close
  \/ ConsumerRecv

Spec == Init /\ [][Next]_vars

\* The records a burst may publish next: the first record any number of
\* times, another record at most MaxAlt times.
BurstRecords ==
  {r \in Records :
     \/ r = [Text |-> "foobar"]
     \/ Cardinality({n \in Names : fs[n].body = Marshal(r)}) < MaxAlt}

\* uuid.NewRandom when it does not collide: the next fresh identity.
FreshID == IF Used < Len(IDs) THEN {IDs[Used + 1]} ELSE {}

\* A publisher bursting records at a watching subscriber whose consumer
\* drains the queue: no identity collides, no malformed file is written and
\* Close is not called.
NextBurst ==
  \/ NewSubscriber
  \/ Publish(MaxBurst, BurstRecords, FreshID)
  \/ WatchRecvInfo
  \/ WatchDecode
  \/ WatchSendQueue
  \/ ConsumerRecv

SpecBurst == Init /\ [][NextBurst]_vars

\* ------------------------------------------------- failed watch registration

\* Where the goroutine would be, had it been started before the error of
\* notify.Watch was looked at.
AfterWatchError_Started == "select"

\* if err := notify.Watch(...); err != nil { return nil, fmt.Errorf("error
\* watching directory ...") }: the return comes before `go s.watch(c)`.
AfterWatchError == "failed"

\* NewSubscriber (Subscribe in the older variant) when notify.Watch fails,
\* as it does in the tests when the directory cannot be read.
NewSubscriberFail ==
  /\ Running
  /\ pc = "new"
  /\ pc' = AfterWatchError
  /\ hist' = [hist EXCEPT !.watchErr = TRUE]
  /\ UNCHANGED <<fs, watched, c, queue, errch, done, err, ei, tmp, panicked, lastPub,
                 pubs, dirst, ctor, rd, sub2, opened, cb, dumped>>

NextWatchErr ==
  \/ Next
  \/ NewSubscriberFail

\* The subscriber of Spec, whose construction may also fail at notify.Watch.
SpecWatchErr == Init /\ [][NextWatchErr]_vars

\* --------------------------------------------------------- second subscriber

\* NewSubscriber for the second subscriber: its own channels, its own
\* registration with notify.Watch, its own goroutine.
NewSubscriber2 ==
  /\ Running
  /\ sub2.pc = "new"
  /\ sub2' = [sub2 EXCEPT !.watched = TRUE, !.pc = "select"]
  /\ UNCHANGED <<fs, watched, c, queue, errch, done, err, pc, ei, tmp, panicked, lastPub,
                 hist, pubs, dirst, ctor, rd, opened, cb, dumped>>

\* One step of Subscriber.watch on the fields of subscriber s: the
\* subscriber after the step and whether the step panicked.
WatchMoves(s) ==
  LET x == DecodeErr(fs[s.ei.path], s.ei.path)
      go(t) == [s |-> t, panic |-> FALSE]
  IN  (IF s.pc = "select" /\ s.c # <<>>
       THEN {go([s EXCEPT !.ei = Head(s.c), !.c = Tail(s.c), !.pc = "decode"])}
       ELSE {})
      \cup
      (IF s.pc = "select" /\ CanRecv(s.errch)
       THEN {go([s EXCEPT !.err = RecvValue(s.errch),
                          !.errch.buf = RecvRest(s.errch), !.pc = "closedone"])}
       ELSE {})
      \cup
      (IF s.pc = "decode"
       THEN {go(IF x # Nil
                THEN [s EXCEPT !.tmp = [e |-> NoEvent, err |-> x], !.pc = "senderr"]
                ELSE [s EXCEPT !.tmp = [e |-> DecodeEvent(fs[s.ei.path], s.ei.path),
                                        err |-> Nil],
                               !.pc = "sendqueue"])}
       ELSE {})
      \cup
      (IF s.pc = "senderr" /\ s.errch.closed
       THEN {[s |-> s, panic |-> TRUE]}
       ELSE IF s.pc = "senderr" /\ CanSend(s.errch.buf, errchCap)
       THEN {go([s EXCEPT !.errch.buf = Append(@, s.tmp.err), !.pc = AfterBreak])}
       ELSE {})
      \cup
      (IF s.pc = "sendqueue" /\ CanSend(s.queue, defaultBufferSize)
       THEN {go([s EXCEPT !.queue = Push(@, s.tmp.e), !.pushed = Append(@, s.tmp.e),
                          !.pc = "select"])}
       ELSE {})
      \cup
      (IF s.pc = "closedone"
       THEN {IF s.done THEN [s |-> s, panic |-> TRUE]
             ELSE go([s EXCEPT !.done = TRUE, !.pc = AfterCloseDone])}
       ELSE {})
      \cup
      (IF s.pc = "stop"
       THEN {go([s EXCEPT !.watched = FALSE, !.pc = "returned"])}
       ELSE {})

\* The second subscriber's goroutine takes a step.
Watch2 ==
  /\ Running
  /\ \E m \in WatchMoves(sub2) :
       /\ sub2' = m.s
       /\ panicked' = m.panic
  /\ UNCHANGED <<fs, watched, c, queue, errch, done, err, pc, ei, tmp, lastPub,
                 hist, pubs, dirst, ctor, rd, opened, cb, dumped>>

\* The second subscriber's consumer calls Close: close(s.errch).
Close2 ==
  /\ Running
  /\ sub2.pc # "new"
  /\ sub2.closes < MaxClose2
  /\ IF sub2.errch.closed
     THEN /\ panicked' = TRUE
          /\ sub2' = [sub2 EXCEPT !.closes = @ + 1]
     ELSE /\ sub2' = [sub2 EXCEPT !.errch.closed = TRUE, !.closes = @ + 1]
          /\ UNCHANGED panicked
  /\ UNCHANGED <<fs, watched, c, queue, errch, done, err, pc, ei, tmp, lastPub,
                 hist, pubs, dirst, ctor, rd, opened, cb, dumped>>

\* The second subscriber's consumer takes an event from its queue.
ConsumerRecv2 ==
  /\ Running
  /\ sub2.queue # <<>>
  /\ sub2' = [sub2 EXCEPT !.queue = Tail(@)]
  /\ UNCHANGED <<fs, watched, c, queue, errch, done, err, pc, ei, tmp, panicked, lastPub,
                 hist, pubs, dirst, ctor, rd, opened, cb, dumped>>

NextTwo ==
  \/ NewSubscriber
  \/ NewSubscriber2
  \/ Publish(MaxTwo, BurstRecords, FreshID)
  \/ DirectWrite(MaxTwo)
  \/ WatchRecvInfo
  \/ WatchDecode
  \/ WatchSendErr
  \/ WatchSendQueue
  \/ WatchRecvErr
  \/ WatchCloseDone
  \/ WatchStop
  \/ Watch2
  \/ Close
  \/ Close2
  \/ ConsumerRecv
  \/ ConsumerRecv2

\* Two subscribers of one process on the same stream directory.
SpecTwo == Init /\ [][NextTwo]_vars

\* ------------------------------------------------------- callback helper

\* NewSubscriberWithCallback: NewSubscriber, then the goroutine running the
\* helper's event loop is started.
NewSubscriberWithCallback ==
  /\ Running
  /\ pc = "new"
  /\ cb.pc = "none"
  /\ watched' = TRUE
  /\ pc' = "select"
  /\ cb' = [cb EXCEPT !.pc = "select"]
  /\ UNCHANGED <<fs, c, queue, errch, done, err, ei, tmp, panicked, lastPub, hist,
                 pubs, dirst, ctor, rd, sub2, opened, dumped>>

\* Helper loop, select case event := <-s.Queue(): the body, cb(event), runs
\* before the loop goes round again.
CbRecv ==
  /\ Running
  /\ cb.pc = "select"
  /\ queue # <<>>
  /\ queue' = Tail(queue)
  /\ cb' = [cb EXCEPT !.ev = Head(queue), !.passed = Append(@, Head(queue))]
  /\ UNCHANGED <<fs, watched, c, errch, done, err, pc, ei, tmp, panicked, lastPub,
                 hist, pubs, dirst, ctor, rd, sub2, opened, dumped>>

\* Helper loop, select case <-s.Done(): return. Go's select takes any one of
\* the cases that are ready, so this step is not held back by a queue that
\* still holds events.
CbDone ==
  /\ Running
  /\ cb.pc = "select"
  /\ done
  /\ cb' = [cb EXCEPT !.pc = "returned", !.left = Len(queue)]
  /\ UNCHANGED <<fs, watched, c, queue, errch, done, err, pc, ei, tmp, panicked,
                 lastPub, hist, pubs, dirst, ctor, rd, sub2, opened, dumped>>

NextCb ==
  \/ NewSubscriberWithCallback
  \/ Publish(MaxWrites, Records, NewRandom)
  \/ DirectWrite(MaxWrites)
  \/ WatchRecvInfo
  \/ WatchDecode
  \/ WatchSendErr
  \/ WatchSendQueue
  \/ WatchRecvErr
  \/ WatchCloseDone
  \/ WatchStop
  \/ Close
  \/ CbRecv
  \/ CbDone

\* A subscriber made by NewSubscriberWithCallback: the helper's loop is the
\* only reader of the queue.
SpecCb == Init /\ [][NextCb]_vars

\* ------------------------------------------------- separate Subscribe step

\* A Subscribe that forgets to mark the subscriber as opened.
OpenedAfterSubscribe_Unset == FALSE

\* s.opened = true, set once notify.Watch has succeeded.
OpenedAfterSubscribe == TRUE

\* Subscriber.Subscribe of the variant in which NewSubscriber only makes the
\* object: it panics on an opened subscriber; otherwise notify.Watch either
\* fails and the error is returned, or succeeds, the subscriber is marked
\* opened and the goroutine running watch is started.
Subscribe ==
  /\ Running
  /\ Len(hist.subscribes) < MaxSubscribe
  /\ IF opened
     THEN /\ panicked' = TRUE
          /\ hist' = [hist EXCEPT !.subscribes = Append(@, "panic")]
          /\ UNCHANGED <<opened, watched, pc>>
     ELSE \/ /\ hist' = [hist EXCEPT !.subscribes = Append(@, "error")]
             /\ UNCHANGED <<opened, watched, pc, panicked>>
          \/ /\ opened' = OpenedAfterSubscribe
             /\ watched' = TRUE
             /\ pc' = "select"
             /\ hist' = [hist EXCEPT !.subscribes = Append(@, "ok")]
             /\ UNCHANGED panicked
  /\ UNCHANGED <<fs, c, queue, errch, done, err, ei, tmp, lastPub,
                 pubs, dirst, ctor, rd, sub2, cb, dumped>>

NextSubscribe ==
  \/ Subscribe
  \/ Publish(MaxTwo, BurstRecords, FreshID)
  \/ DirectWrite(MaxTwo)
  \/ WatchRecvInfo
  \/ WatchDecode
  \/ WatchSendErr
  \/ WatchSendQueue
  \/ WatchRecvErr
  \/ WatchCloseDone
  \/ WatchStop
  \/ Close
  \/ ConsumerRecv

\* The subscriber of the variant with a separate Subscribe step, on which
\* Subscribe is called again and again.
SpecSubscribe == Init /\ [][NextSubscribe]_vars

\* Subscriber.SubscribeCallback of the same variant: the goroutine running
\* the helper's event loop is started first, then Subscribe is called and
\* its result returned.
SubscribeCallback ==
  /\ Running
  /\ cb.pc = "none"
  /\ Len(hist.subscribes) < MaxSubscribe
  /\ cb' = [cb EXCEPT !.pc = "select"]
  /\ IF opened
     THEN /\ panicked' = TRUE
          /\ hist' = [hist EXCEPT !.subscribes = Append(@, "panic")]
          /\ UNCHANGED <<opened, watched, pc>>
     ELSE \/ /\ hist' = [hist EXCEPT !.subscribes = Append(@, "error")]
             /\ UNCHANGED <<opened, watched, pc, panicked>>
          \/ /\ opened' = OpenedAfterSubscribe
             /\ watched' = TRUE
             /\ pc' = "select"
             /\ hist' = [hist EXCEPT !.subscribes = Append(@, "ok")]
             /\ UNCHANGED panicked
  /\ UNCHANGED <<fs, c, queue, errch, done, err, ei, tmp, lastPub,
                 pubs, dirst, ctor, rd, sub2, dumped>>

NextSubscribeCb ==
  \/ SubscribeCallback
  \/ Subscribe
  \/ Publish(MaxTwo, BurstRecords, FreshID)
  \/ DirectWrite(MaxTwo)
  \/ WatchRecvInfo
  \/ WatchDecode
  \/ WatchSendErr
  \/ WatchSendQueue
  \/ WatchRecvErr
  \/ WatchCloseDone
  \/ WatchStop
  \/ Close
  \/ CbRecv
  \/ CbDone

\* The subscriber of the variant with a separate Subscribe step, used
\* through SubscribeCallback.
SpecSubscribeCb == Init /\ [][NextSubscribeCb]_vars

\* ---------------------------------------------------- concurrent publishers

\* Publish calls that have started and not yet returned, plus those that
\* have returned: the number of calls made so far.
Calls == hist.writes + Cardinality({p \in Pubs : pubs[p].pc \notin {"new", "idle"}})

\* The values handed to Publish: every run-time type, every record.
Values == {[type |-> t, rec |-> r] : t \in EventTypes, r \in Records}

\* reflect.TypeOf(data) != s.eventType
TypeMatches_Always(ev, stype) == TRUE

TypeMatches(ev, stype) == ev.type = stype

\* json.Marshal fails on BadEvent: its field Ch is a channel.
MarshalOK(ev) == ev.type # "BadEvent"

\* NewPublisher: the caller gets a Publisher for the stream directory. The
\* directory's name ends in the event type's name, so callers that share
\* the directory share the event type.
NewPublisher(p) ==
  /\ Running
  /\ pubs[p].pc = "new"
  /\ \E t \in StreamTypes :
       /\ \A q \in Pubs : pubs[q].pc # "new" => pubs[q].stype = t
       /\ pubs' = [pubs EXCEPT ![p] = [@ EXCEPT !.pc = "idle", !.stype = t]]
  /\ UNCHANGED <<fs, watched, c, queue, errch, done, err, pc, ei, tmp, panicked, lastPub,
                 hist, dirst, ctor, rd, sub2, opened, cb, dumped>>

\* Publish up to the existence check: uuid.NewRandom proposes an identity,
\* WriteEvent compares the types and encodes the record. A failure of
\* either returns the error at once.
PubStart(p) ==
  /\ Running
  /\ pubs[p].pc = "idle"
  /\ Calls < MaxWrites
  /\ \E ev \in Values, id \in NewRandom :
       IF ~TypeMatches(ev, pubs[p].stype)
       THEN /\ pubs' = [pubs EXCEPT ![p] = [@ EXCEPT !.id = id, !.ev = ev, !.data = <<>>,
                                                     !.res = "type mismatch",
                                                     !.raced = FALSE]]
            /\ hist' = [hist EXCEPT !.writes = @ + 1]
       ELSE IF ~MarshalOK(ev)
       THEN /\ pubs' = [pubs EXCEPT ![p] = [@ EXCEPT !.id = id, !.ev = ev, !.data = <<>>,
                                                     !.res = "marshal error",
                                                     !.raced = FALSE]]
            /\ hist' = [hist EXCEPT !.writes = @ + 1]
       ELSE /\ pubs' = [pubs EXCEPT ![p] = [@ EXCEPT !.id = id, !.ev = ev,
                                                     !.data = Marshal(ev.rec),
                                                     !.res = "none", !.pc = "stat",
                                                     !.raced = FALSE]]
            /\ hist' = hist
  /\ UNCHANGED <<fs, watched, c, queue, errch, done, err, pc, ei, tmp, panicked, lastPub,
                 dirst, ctor, rd, sub2, opened, cb, dumped>>

\* What the existence check does when the path exists, had it gone on to
\* write.
OnCollision_Overwrite == [res |-> "none", pc |-> "open", returned |-> 0]

\* if _, err := os.Stat(path); err == nil { return IDCollisionError{...} }
OnCollision == [res |-> "IDCollisionError", pc |-> "idle", returned |-> 1]

\* The existence check: os.Stat(path).
PubStat(p) ==
  /\ Running
  /\ pubs[p].pc = "stat"
  /\ LET o == IF StatOK(pubs[p].id) THEN OnCollision
              ELSE [res |-> "none", pc |-> "open", returned |-> 0]
     IN /\ pubs' = [pubs EXCEPT ![p] = [@ EXCEPT !.res = o.res, !.pc = o.pc]]
        /\ hist' = [hist EXCEPT !.writes = @ + o.returned]
  /\ UNCHANGED <<fs, watched, c, queue, errch, done, err, pc, ei, tmp, panicked, lastPub,
                 dirst, ctor, rd, sub2, opened, cb, dumped>>

\* ioutil.WriteFile opens the path with O_WRONLY|O_CREATE|O_TRUNC: a new
\* file is created empty with the given mode, an existing one is emptied
\* and keeps its mode.
OpenTrunc(id) ==
  [fs EXCEPT ![id] = [body |-> <<>>,
                      mode |-> IF fs[id] = NoFile THEN "0666" ELSE fs[id].mode]]

PubOpen(p) ==
  /\ Running
  /\ pubs[p].pc = "open"
  /\ fs' = OpenTrunc(pubs[p].id)
  /\ pubs' = [pubs EXCEPT ![p] = [@ EXCEPT !.pc = "write",
                                           !.raced = fs[pubs[p].id] # NoFile]]
  /\ UNCHANGED <<watched, c, queue, errch, done, err, pc, ei, tmp, panicked, lastPub,
                 hist, dirst, ctor, rd, sub2, opened, cb, dumped>>

\* ioutil.WriteFile writes the data and closes the file, which notify
\* reports as InCloseWrite; WriteEvent returns nil and Publish the identity.
PubWrite(p) ==
  /\ Running
  /\ pubs[p].pc = "write"
  /\ fs' = [fs EXCEPT ![pubs[p].id] = [@ EXCEPT !.body = pubs[p].data]]
  /\ pubs' = [pubs EXCEPT ![p] = [@ EXCEPT !.res = "nil", !.pc = "idle"]]
  /\ Notify(pubs[p].id, <<[id |-> pubs[p].id, rec |-> pubs[p].ev.rec]>>)
  /\ UNCHANGED <<watched, queue, errch, done, err, pc, ei, tmp, panicked, lastPub,
                 dirst, ctor, rd, opened, cb, dumped>>

NextPub ==
  \/ NewSubscriber
  \/ \E p \in Pubs : NewPublisher(p)
  \/ \E p \in Pubs : PubStart(p)
  \/ \E p \in Pubs : PubStat(p)
  \/ \E p \in Pubs : PubOpen(p)
  \/ \E p \in Pubs : PubWrite(p)

\* Two callers publishing concurrently into one stream directory, with a
\* subscriber registered at any moment.
SpecPub == Init /\ [][NextPub]_vars

\* ------------------------------------------------------ stream constructor

\* What can be at the stream directory's path, and what the tests' Setup
\* denies: "stat" stands for an ancestor that cannot be searched, "mkdir"
\* for a parent that cannot be written.
DirStates == [kind : {"absent", "dir", "file"}, deny : {"none", "stat", "mkdir"}]

\* The sample values handed to NewStream.
Samples == {"nil", "TestEvent"}

\* s.dir: filepath.Clean(dir) + "/" + reflect.TypeOf(event).Name(), for the
\* one base directory of the model.
StreamDir(event) == <<"dir", event>>

\* An existence check that finds nothing, whatever is there.
StatDir_Stale(d) == "notexist"

\* os.Stat(s.dir) as the switch in NewStream tells its outcomes apart.
StatDir(d) ==
  IF d.deny = "stat" THEN "error"
  ELSE IF d.kind = "absent" THEN "notexist"
  ELSE d.kind

\* A switch without the IsDir test: anything that exists is accepted.
AfterStat_AnyEntry(saw) ==
  CASE saw \in {"dir", "file"} -> [res |-> "nil", pc |-> "idle", stream |-> TRUE]
    [] saw = "notexist"       -> [res |-> "none", pc |-> "mkdir", stream |-> FALSE]
    [] OTHER                  -> [res |-> "could not stat dir", pc |-> "idle", stream |-> FALSE]

\* The switch on the result of os.Stat.
AfterStat(saw) ==
  CASE saw = "dir"      -> [res |-> "nil", pc |-> "idle", stream |-> TRUE]
    [] saw = "file"     -> [res |-> "exists and is not a directory", pc |-> "idle",
                            stream |-> FALSE]
    [] saw = "notexist" -> [res |-> "none", pc |-> "mkdir", stream |-> FALSE]
    [] OTHER            -> [res |-> "could not stat dir", pc |-> "idle", stream |-> FALSE]

\* os.Mkdir(s.dir, 0777): fails when the path exists by now or the parent
\* cannot be written.
MkdirOK(d) == d.kind = "absent" /\ d.deny # "mkdir"

Mkdir(d) == IF MkdirOK(d) THEN [d EXCEPT !.kind = "dir"] ELSE d

AfterMkdir(ok) ==
  IF ok THEN [res |-> "nil", stream |-> TRUE]
  ELSE [res |-> "cannot create directory", stream |-> FALSE]

\* NewStream up to the existence check: the nil test, then os.Stat and the
\* switch on its result.
NsStart(k) ==
  /\ Running
  /\ ctor[k].pc = "idle"
  /\ ctor[k].calls < MaxCalls
  /\ \E event \in Samples :
       LET saw == StatDir(dirst)
           o   == AfterStat(saw)
       IN ctor' = [ctor EXCEPT ![k] =
            IF event = "nil"
            THEN [@ EXCEPT !.event = event, !.saw = "none", !.calls = @ + 1,
                           !.res = "event cannot be nil", !.stream = FALSE,
                           !.made = FALSE, !.sdir = <<>>]
            ELSE [@ EXCEPT !.event = event, !.saw = saw, !.calls = @ + 1,
                           !.res = o.res, !.pc = o.pc, !.stream = o.stream,
                           !.made = FALSE,
                           !.sdir = IF o.stream THEN StreamDir(event) ELSE <<>>]]
  /\ UNCHANGED <<fs, watched, c, queue, errch, done, err, pc, ei, tmp, panicked, lastPub,
                 hist, pubs, dirst, rd, sub2, opened, cb, dumped>>

\* NewStream after a path that did not exist: os.Mkdir.
NsMkdir(k) ==
  /\ Running
  /\ ctor[k].pc = "mkdir"
  /\ dirst' = Mkdir(dirst)
  /\ ctor' = [ctor EXCEPT ![k] = [@ EXCEPT !.pc = "idle", !.made = MkdirOK(dirst),
                                           !.res = AfterMkdir(MkdirOK(dirst)).res,
                                           !.stream = AfterMkdir(MkdirOK(dirst)).stream,
                                           !.sdir = IF MkdirOK(dirst)
                                                    THEN StreamDir(ctor[k].event)
                                                    ELSE <<>>]]
  /\ UNCHANGED <<fs, watched, c, queue, errch, done, err, pc, ei, tmp, panicked, lastPub,
                 hist, pubs, rd, sub2, opened, cb, dumped>>

\* The tests' Setup: before a call, something else puts a file or nothing at
\* the path, or takes permissions away.
Setup ==
  /\ Running
  /\ dirst.setups < MaxSetup
  /\ \E d \in DirStates :
       /\ d # [kind |-> dirst.kind, deny |-> dirst.deny]
       /\ dirst' = [kind |-> d.kind, deny |-> d.deny, setups |-> dirst.setups + 1]
  /\ UNCHANGED <<fs, watched, c, queue, errch, done, err, pc, ei, tmp, panicked, lastPub,
                 hist, pubs, ctor, rd, sub2, opened, cb, dumped>>

NextStream ==
  \/ Setup
  \/ \E k \in Ctors : NsStart(k)
  \/ \E k \in Ctors : NsMkdir(k)

\* Two callers constructing a stream for the same path, concurrently.
SpecStream == Init /\ [][NextStream]_vars

\* NewStream run from start to end by one caller: its result and the path
\* as it leaves it.
NewStreamSeq(d, event) ==
  IF event = "nil" THEN [res |-> "event cannot be nil", stream |-> FALSE, dir |-> d]
  ELSE LET o == AfterStat(StatDir(d))
       IN IF o.pc = "mkdir"
          THEN [res |-> AfterMkdir(MkdirOK(d)).res,
                stream |-> AfterMkdir(MkdirOK(d)).stream, dir |-> Mkdir(d)]
          ELSE [res |-> o.res, stream |-> o.stream, dir |-> d]

\* Fetch(dir, event, id): NewStream, then DecodeEvent on the file named id.
Fetch(id) ==
  /\ Running
  /\ LET ns == NewStreamSeq(dirst, "TestEvent")
     IN /\ dirst' = ns.dir
        /\ rd' = IF ~ns.stream
                 THEN [called |-> TRUE, id |-> id, e |-> NoEvent,
                       err |-> [kind |-> ns.res, path |-> ""],
                       npubs |-> Len(hist.pubs)]
                 ELSE IF DecodeErr(fs[id], id) # Nil
                 THEN [called |-> TRUE, id |-> id, e |-> NoEvent,
                       err |-> DecodeErr(fs[id], id), npubs |-> Len(hist.pubs)]
                 ELSE [called |-> TRUE, id |-> id, e |-> DecodeEvent(fs[id], id),
                       err |-> Nil, npubs |-> Len(hist.pubs)]
  /\ UNCHANGED <<fs, watched, c, queue, errch, done, err, pc, ei, tmp, panicked, lastPub,
                 hist, pubs, ctor, sub2, opened, cb, dumped>>

\* The names Fetch is asked for: every file there is, and one there is not.
FetchNames == {n \in Names : fs[n] # NoFile} \cup FreshID

FetchAny == \E id \in FetchNames : Fetch(id)

NextSeq ==
  \/ Publish(MaxWrites, Records, NewRandom)
  \/ DirectWrite(MaxWrites)
  \/ FetchAny

\* One caller that publishes, writes files directly and fetches, each call
\* run to its end before the next.
SpecSeq == Init /\ [][NextSeq]_vars

\* ------------------------------------------------------------- bulk reads

\* The record types bulk reads are called for: TestEvent has no Less method,
\* sortableEvent embeds TestEvent and implements IndexedEvent.
DumpTypes == {"TestEvent", "sortableEvent"}

\* p[i].Data.(IndexedEvent) succeeds.
Indexed(etype) == etype = "sortableEvent"

\* Position of a Text among the strings of the model in Go's string order.
Rank(t) == CASE t = "" -> 0 [] t = "bazqux" -> 1 [] t = "foobar" -> 2

\* sortableEvent.Less: i.Text < j.(sortableEvent).Text.
sortableLess(a, b) == Rank(a.Text) < Rank(b.Text)

\* A comparison that ignores the reversal.
Less_Forward(p, i, j, rev) == sortableLess(p[i].Data, p[j].Data)

\* eventSlice.Less on an indexed type, and under sort.Reverse the same with
\* its arguments swapped.
Less(p, i, j, rev) ==
  IF rev THEN sortableLess(p[j].Data, p[i].Data)
  ELSE sortableLess(p[i].Data, p[j].Data)

\* eventSlice.Swap.
Swap(p, i, j) == [p EXCEPT ![i] = p[j], ![j] = p[i]]

\* The inner loop of insertionSort: for j := i; j > a && Less(j, j-1); j--.
RECURSIVE Sink(_, _, _)
Sink(p, j, rev) ==
  IF j > 1 /\ Less(p, j, j - 1, rev) THEN Sink(Swap(p, j, j - 1), j - 1, rev)
  ELSE p

\* sort.Sort on a slice of fewer than twelve elements: insertionSort, whose
\* outer loop starts at the second element.
RECURSIVE insertionSort(_, _, _)
insertionSort(p, i, rev) ==
  IF i > Len(p) THEN p ELSE insertionSort(Sink(p, i, rev), i + 1, rev)

\* sort.Sort calls Less at all: the first comparison is Less(1, 0), made
\* only when the slice has a second element.
SortCallsLess(p) == Len(p) > 1

\* A listing that takes every entry for a regular file.
IsRegular_Any(f) == TRUE

\* f.Mode().IsRegular().
IsRegular(f) == f.mode \in {"0666", "0000"}

\* ioutil.ReadDir lists the entries sorted by file name.
DirOrder == <<BadName, SubName>> \o IDs

ReadDir == SelectSeq(DirOrder, LAMBDA n : fs[n] # NoFile)

\* The loop of dump over the entries from position i on, es being the
\* events collected so far: entries that are not regular files are skipped,
\* the first failure of DecodeEvent ends the call with the error alone.
RECURSIVE dump(_, _, _)
dump(entries, i, es) ==
  IF i > Len(entries) THEN [es |-> es, err |-> Nil]
  ELSE IF ~IsRegular(fs[entries[i]]) THEN dump(entries, i + 1, es)
  ELSE IF DecodeErr(fs[entries[i]], entries[i]) # Nil
  THEN [es |-> <<>>, err |-> DecodeErr(fs[entries[i]], entries[i])]
  ELSE dump(entries, i + 1, Append(es, DecodeEvent(fs[entries[i]], entries[i])))

\* Dump(dir, event): NewStream, then dump.
Dump(ns) ==
  IF ~ns.stream THEN [es |-> <<>>, err |-> [kind |-> ns.res, path |-> ""]]
  ELSE dump(ReadDir, 1, <<>>)

\* Dump, DumpSorted and DumpSortedReverse called for a record type: the
\* sorted reads return Dump's error as it is, otherwise sort what Dump
\* returned, and Less panics on a type that is not an IndexedEvent.
DumpCall(op, etype) ==
  /\ Running
  /\ LET ns == NewStreamSeq(dirst, etype)
         d  == Dump(ns)
         boom == /\ op # "Dump"
                 /\ d.err = Nil
                 /\ SortCallsLess(d.es)
                 /\ ~Indexed(etype)
     IN /\ dirst' = ns.dir
        /\ panicked' = (panicked \/ boom)
        /\ dumped' = [op |-> op, etype |-> etype,
                      entries |-> IF ns.stream THEN ReadDir ELSE <<>>,
                      base |-> d.es,
                      es |-> IF boom THEN <<>>
                             ELSE IF op = "Dump" \/ d.err # Nil \/ ~SortCallsLess(d.es)
                             THEN d.es
                             ELSE insertionSort(d.es, 2, op = "DumpSortedReverse"),
                      err |-> d.err,
                      panic |-> boom]
  /\ UNCHANGED <<fs, watched, c, queue, errch, done, err, pc, ei, tmp, lastPub,
                 hist, pubs, ctor, rd, sub2, opened, cb>>

DumpAny ==
  \E op \in {"Dump", "DumpSorted", "DumpSortedReverse"}, etype \in DumpTypes :
    DumpCall(op, etype)

\* A process makes a subdirectory inside the stream directory.
MkSubdir ==
  /\ Running
  /\ fs[SubName] = NoFile
  /\ fs' = [fs EXCEPT ![SubName] = [body |-> <<>>, mode |-> "dir"]]
  /\ UNCHANGED <<watched, c, queue, errch, done, err, pc, ei, tmp, panicked, lastPub,
                 hist, pubs, dirst, ctor, rd, sub2, opened, cb, dumped>>

NextDump ==
  \/ Publish(MaxWrites, Records, NewRandom)
  \/ DirectWrite(MaxWrites)
  \/ MkSubdir
  \/ DumpAny

\* One caller that publishes, writes files directly, makes a subdirectory
\* and reads the whole stream back, each call run to its end before the
\* next.
SpecDump == Init /\ [][NextDump]_vars

NextRead ==
  \/ Setup
  \/ DumpAny
  \/ FetchAny

\* One caller reading a stream whose directory something else has removed,
\* replaced or made inaccessible beforehand.
SpecRead == Init /\ [][NextRead]_vars

NextHalf ==
  \/ \E p \in Pubs : NewPublisher(p)
  \/ \E p \in Pubs : PubStart(p)
  \/ \E p \in Pubs : PubStat(p)
  \/ \E p \in Pubs : PubOpen(p)
  \/ \E p \in Pubs : PubWrite(p)
  \/ FetchAny
  \/ DumpCall("Dump", "TestEvent")

\* Readers running while publishers are inside ioutil.WriteFile, between
\* the open that creates the file and the write of its data.
SpecHalf == Init /\ [][NextHalf]_vars

\* ------------------------------------------------------------------ claims

\* The delivery goroutine has returned after firing the completion signal.
Finished == pc = "returned" /\ done

\* C1: after Close has been called on a running subscriber, the delivery
\* goroutine goes on to terminate and Done fires whatever the buffers hold
\* and whatever the consumer does: after a (single) Close the goroutine has
\* finished or can take its next step without anybody's help.
C1_CloseTerminates == hist.closes = 1 => (Finished \/ ENABLED Watch)

\* C2: once the goroutine has hit a read or decode failure (and Close is not
\* involved), it goes on to fire Done with that error as the terminal error:
\* it has finished or can take its next step, and the terminal error read
\* after Done is the failure's error.
C2_FailureTerminates ==
  (hist.fails # <<>> /\ hist.closes = 0) =>
    /\ Finished \/ ENABLED Watch
    /\ done => err = hist.fails[Len(hist.fails)].err

\* C3: once the goroutine has hit a read or decode failure it pushes no
\* further event onto the delivery queue.
C3_NoPushAfterFailure ==
  hist.fails # <<>> => Len(hist.pushed) = hist.fails[1].pushed

\* C4: the completion signal fires at most once: close(s.done) is executed
\* at most once in any execution.
C4_DoneAtMostOnce == hist.doneCloses <= 1

\* C4 witness: Done has fired on the failure path and the goroutine has
\* returned, with a Close call and further writes around it.
C4_Witness ==
  /\ hist.doneCloses = 1 /\ pc = "returned"
  /\ hist.fails # <<>> /\ hist.closes > 0 /\ hist.writes >= 2

\* C5: a Close call that is the second one, or that comes after the
\* completion signal has fired, is a no-op: it does not crash the program
\* and leaves the completion signal, the terminal error and the queue alone.
C5_CloseIsBenign ==
  [][(hist'.closes > hist.closes /\ (hist.closes > 0 \/ done)) =>
       (~panicked' /\ done' = done /\ err' = err /\ queue' = queue)]_vars

\* C6: if Close is called before any notification has arrived, the
\* completion signal goes on to fire, the terminal error read after it is
\* nil and nothing is pushed onto the queue after it.
C6_CloseEarlyGraceful ==
  (hist.closedEarly /\ hist.closes = 1) =>
    /\ Finished \/ ENABLED Watch
    /\ done => err = Nil
    /\ done => Len(hist.pushed) = hist.atDone

\* C7: whenever the completion signal has fired, the terminal error is nil
\* exactly when Close ended the subscription (Close was called and no read
\* or decode failure occurred) and non-nil exactly when a failure occurred,
\* in which case it is that failure's error; nothing else ends it.
C7_ErrorTellsCause ==
  done =>
    /\ (err = Nil) <=> (hist.closes > 0 /\ hist.fails = <<>>)
    /\ (err # Nil) <=> (hist.fails # <<>>)
    /\ err # Nil => err = hist.fails[1].err

\* C7 witness: a failure followed by a Close: the completion signal has
\* fired and the failure's error, not nil, is the terminal error.
C7_Witness ==
  /\ done /\ pc = "returned"
  /\ hist.fails # <<>> /\ hist.closes > 0 /\ err = hist.fails[1].err

C9_OrderPreserved ==
  LET P == hist.pushed
      R == hist.reported
  IN /\ \A i \in 1..Len(P) :
          /\ P[i].seq \in 1..Len(R)
          /\ R[P[i].seq].accepted
          /\ P[i].e.ID = Base(R[P[i].seq].path)
          /\ R[P[i].seq].path # BadName =>
               P[i].e = DecodeEvent(fs[R[P[i].seq].path], R[P[i].seq].path)
     /\ \A i, j \in 1..Len(P) : i < j => P[i].seq < P[j].seq
     /\ Len(queue) <= Len(P)
     /\ \A k \in 1..Len(queue) : queue[k] = P[Len(P) - Len(queue) + k].e

\* C9 witness: two events are queued whose notifications were not adjacent:
\* a notification between them was reported but did not become an event.
C9_Witness ==
  /\ Len(queue) >= 2 /\ Len(hist.pushed) >= 2
  /\ hist.pushed[2].seq > hist.pushed[1].seq + 1

\* The pipeline is empty: the goroutine waits in its select and no
\* notification is pending.
Quiescent == pc = "select" /\ c = <<>>

\* The pushes that carry the identity id.
PushesOf(id) == {i \in 1..Len(hist.pushed) : hist.pushed[i].e.ID = id}

\* C10 (as claimed): for a watching subscriber, every successful Publish of
\* a record r results in exactly one event on the queue, with the returned
\* identity as ID and r as Data (seen once the pipeline is empty).
C10_ExactlyOneEvent ==
  Quiescent =>
    \A k \in 1..Len(hist.pubs) :
      hist.pubs[k].watched =>
        /\ Cardinality(PushesOf(hist.pubs[k].id)) = 1
        /\ \A i \in PushesOf(hist.pubs[k].id) :
             hist.pushed[i].e = [ID |-> hist.pubs[k].id, Data |-> hist.pubs[k].rec]

\* C10 (amended): for a subscriber that stays watching, every successful
\* Publish results in at most one event, whose ID is the returned identity
\* and whose Data is the record, and in exactly one (once the pipeline is
\* empty) when the notification channel had room for its notification; a
\* publish made while the channel is full results in no event.
C10_OneEventIfAccepted ==
  \A k \in 1..Len(hist.pubs) :
    LET p == hist.pubs[k]
    IN /\ Cardinality(PushesOf(p.id)) <= 1
       /\ \A i \in PushesOf(p.id) : hist.pushed[i].e = [ID |-> p.id, Data |-> p.rec]
       /\ (Quiescent /\ p.accepted) => Cardinality(PushesOf(p.id)) = 1
       /\ ~p.accepted => PushesOf(p.id) = {}

\* C10 witness: a burst has overrun the notification channel: the pipeline
\* is empty again, the accepted publishes (of both records) have been
\* pushed and one publish made while watching was dropped.
C10_Witness ==
  /\ Quiescent
  /\ \E k \in 1..Len(hist.pubs) : hist.pubs[k].watched /\ ~hist.pubs[k].accepted
  /\ Len(hist.pushed) >= defaultBufferSize
  /\ \E i, j \in 1..Len(hist.pushed) : hist.pushed[i].e.Data # hist.pushed[j].e.Data

\* C11: for any interleaving of concurrent Publish calls on one stream
\* directory, no two calls that return success return the same identity.
C11_SuccessesOwnDistinctIDs ==
  \A i, j \in 1..Len(hist.pubs) : i # j => hist.pubs[i].id # hist.pubs[j].id

\* C12: an event file is write-once: once a file exists with an encoded
\* body, no later or concurrent Publish changes its content.
C12_WriteOnce ==
  [][\A i \in 1..Len(IDs) :
       fs[IDs[i]].body # <<>> => fs'[IDs[i]].body = fs[IDs[i]].body]_vars

\* C13: if the identity chosen for a publish already names an entry when the
\* existence check runs, the call returns IDCollisionError and writes
\* nothing: the directory is unchanged and no notification is produced.
C13_CollisionRejected ==
  [][\A p \in Pubs :
       (pubs[p].pc = "stat" /\ fs[pubs[p].id] # NoFile /\ pubs'[p] # pubs[p])
       => /\ pubs'[p].res = "IDCollisionError"
          /\ pubs'[p].pc = "idle"
          /\ fs' = fs
          /\ c' = c
          /\ hist'.reported = hist.reported]_vars

\* A call has returned IDCollisionError for a file another call published,
\* with a subscriber registered that was told of one write only.
C13_Witness ==
  \E p \in Pubs :
    /\ pubs[p].res = "IDCollisionError"
    /\ pubs[p].pc = "idle"
    /\ fs[pubs[p].id].body # <<>>
    /\ watched
    /\ Len(hist.reported) = 1
    /\ hist.writes = 2

\* C14: Publish calls executed one after another on one stream directory
\* that all succeed return pairwise distinct identities, whatever the random
\* generator proposes: as many identities as successful calls.
C14_SequentialDistinct ==
  Cardinality({hist.pubs[i].id : i \in 1..Len(hist.pubs)}) = Len(hist.pubs)

\* Three calls, of which the generator re-proposed a used identity to one
\* (rejected) and the other two succeeded.
C14_Witness ==
  /\ hist.writes = 3
  /\ Len(hist.pubs) = 2
  /\ fs[BadName] = NoFile
  /\ lastPub.err = "nil"

\* C15: a Publish whose record has another run-time type than the stream's
\* event type, or cannot be encoded, returns the error and leaves the stream
\* directory as it was: no file is created or modified and no subscriber
\* is notified.
C15_RejectedLeavesDirectory ==
  [][\A p \in Pubs :
       (/\ pubs[p].pc = "idle"
        /\ pubs'[p] # pubs[p]
        /\ (pubs'[p].ev.type # pubs[p].stype \/ pubs'[p].ev.type = "BadEvent"))
       => /\ pubs'[p].pc = "idle"
          /\ pubs'[p].res = IF pubs'[p].ev.type # pubs[p].stype
                            THEN "type mismatch" ELSE "marshal error"
          /\ fs' = fs
          /\ c' = c
          /\ hist'.reported = hist.reported]_vars

\* A pointer to a TestEvent was refused by a TestEvent stream that already
\* holds a published event and has a subscriber registered.
C15_Witness ==
  \E p \in Pubs :
    /\ pubs[p].res = "type mismatch"
    /\ pubs[p].ev.type = "*TestEvent"
    /\ pubs[p].stype = "TestEvent"
    /\ watched
    /\ Len(hist.pubs) = 1
    /\ Len(hist.reported) = 1

\* A BadEvent was refused by a BadEvent stream: it cannot be encoded.
C15_WitnessEncode ==
  \E p \in Pubs :
    /\ pubs[p].res = "marshal error"
    /\ pubs[p].ev.type = "BadEvent"
    /\ pubs[p].stype = "BadEvent"
    /\ watched
    /\ Used = 0

C19_NewStreamOutcomes ==
  [][\A k \in Ctors :
       ctor'[k] # ctor[k] =>
         LET a == ctor[k]
             b == ctor'[k]
         IN /\ b.stream <=> (b.pc = "idle" /\ b.res = "nil")
            /\ a.pc = "idle" =>
                 /\ dirst' = dirst
                 /\ IF b.event = "nil"
                    THEN b.pc = "idle" /\ b.res = "event cannot be nil"
                    ELSE IF dirst.deny = "stat"
                    THEN b.pc = "idle" /\ b.res = "could not stat dir"
                    ELSE IF dirst.kind = "dir"
                    THEN b.pc = "idle" /\ b.res = "nil"
                    ELSE IF dirst.kind = "file"
                    THEN b.pc = "idle" /\ b.res = "exists and is not a directory"
                    ELSE b.pc = "mkdir"
            /\ a.pc = "mkdir" =>
                 /\ b.pc = "idle"
                 /\ IF dirst.kind = "absent" /\ dirst.deny # "mkdir"
                    THEN dirst'.kind = "dir" /\ dirst'.deny = dirst.deny /\ b.res = "nil"
                    ELSE dirst' = dirst /\ b.res = "cannot create directory"]_vars

\* Both callers found nothing at the path; one created the directory and
\* got its stream, the other's creation failed and it got none.
C19_Witness ==
  /\ ctor["k1"].res = "nil"
  /\ ctor["k1"].made
  /\ ctor["k1"].stream
  /\ ctor["k2"].res = "cannot create directory"
  /\ ~ctor["k2"].stream
  /\ dirst.kind = "dir"

\* The notifications notify dropped because the channel was full.
Dropped == {i \in 1..Len(hist.reported) : ~hist.reported[i].accepted}

\* C17: overrun is silent: when the notification buffer is full the excess
\* notifications are dropped; no terminal error is recorded, the completion
\* signal does not fire, the publisher is not blocked, the subscription
\* stays Watching, and events whose notifications are accepted after a drop
\* are still delivered.
C17_OverrunSilent ==
  /\ Len(c) <= defaultBufferSize
  /\ (Len(c) = defaultBufferSize /\ hist.writes < MaxBurst /\ FreshID # {})
     => ENABLED Publish(MaxBurst, BurstRecords, FreshID)
  /\ Dropped # {} =>
       /\ err = Nil /\ errch.buf = <<>> /\ ~errch.closed
       /\ ~done /\ ~panicked
       /\ watched /\ pc \in {"select", "decode", "sendqueue"}
       /\ \A i \in Dropped : PushesOf(hist.reported[i].path) = {}
       /\ Quiescent =>
            \A i \in 1..Len(hist.reported) :
              hist.reported[i].accepted
              => Cardinality(PushesOf(hist.reported[i].path)) = 1

\* The 11th notification of a burst was dropped, the 12th was accepted
\* after the goroutine had taken one, and its event has been pushed.
C17_Witness ==
  /\ Len(hist.reported) = 12
  /\ Dropped = {11}
  /\ Quiescent
  /\ PushesOf(hist.reported[12].path) # {}

\* C20: if registering the watch fails, construction returns 'error watching
\* directory', no delivery goroutine is started and the subscriber never
\* reaches Watching: no event is delivered and the completion signal never
\* fires, whatever is published or closed afterwards.
C20_WatchErrorNeverWatching ==
  hist.watchErr =>
    /\ pc = "failed"
    /\ ~ENABLED Watch
    /\ ~watched /\ c = <<>>
    /\ queue = <<>> /\ hist.pushed = <<>>
    /\ ~done /\ hist.doneCloses = 0 /\ err = Nil

\* Construction failed; events were published, a malformed file was written
\* and Close was called on the subscriber that is not watching.
C20_Witness ==
  /\ hist.watchErr
  /\ Len(hist.pubs) = 2
  /\ fs[BadName] # NoFile
  /\ hist.closes = 1

\* The second subscriber is watching, was not closed, and was told of no
\* malformed file: nothing of its own has ended or will end its delivery.
Healthy2 ==
  /\ sub2.watched
  /\ sub2.closes = 0
  /\ \A k \in 1..Len(sub2.seen) : sub2.seen[k].path # BadName

\* The second subscriber has a notification waiting or in hand.
Pending2 == sub2.c # <<>> \/ sub2.pc # "select"

\* The events in the order the second subscriber was told of them.
Told2 == [k \in 1..Len(sub2.seen) |-> sub2.seen[k].path]

Pushed2 == [k \in 1..Len(sub2.pushed) |-> sub2.pushed[k].ID]

\* C18: two subscribers on one stream directory are independent: whatever
\* the first subscriber does and whenever its consumer calls Close (once),
\* a second subscriber that is watching keeps delivering: a notification it
\* holds can always be taken further, its completion signal does not fire,
\* its terminal error stays nil, and once it has nothing pending every
\* event reported to it is on its queue, in order.
C18_OtherKeepsDelivering ==
  (Healthy2 /\ hist.closes <= 1) =>
    /\ Pending2 => ENABLED Watch2
    /\ ~sub2.done /\ sub2.err = Nil
    /\ ~Pending2 => Pushed2 = Told2

\* The same, as long as no goroutine of the process has panicked.
C18_WhileRunning == panicked \/ C18_OtherKeepsDelivering

\* No step changes the fields of both subscribers, a Close on one leaves
\* every field of the other as it was, and a write made while both are
\* registered is reported to both.
C18_OwnFields ==
  [][/\ \/ <<queue, done, err, errch, pc, watched>>' = <<queue, done, err, errch, pc, watched>>
        \/ <<sub2.queue, sub2.done, sub2.err, sub2.errch, sub2.pc, sub2.watched>>'
           = <<sub2.queue, sub2.done, sub2.err, sub2.errch, sub2.pc, sub2.watched>>
     /\ hist'.closes # hist.closes => sub2' = sub2
     /\ sub2'.closes # sub2.closes
        => <<watched, c, queue, errch, done, err, pc, ei, tmp>>'
           = <<watched, c, queue, errch, done, err, pc, ei, tmp>>
     /\ (watched /\ sub2.watched /\ fs' # fs)
        => /\ Len(hist'.reported) = Len(hist.reported) + 1
           /\ Len(sub2'.seen) = Len(sub2.seen) + 1
           /\ hist'.reported[Len(hist'.reported)].w = sub2'.seen[Len(sub2'.seen)].w
           /\ hist'.reported[Len(hist'.reported)].path
              = sub2'.seen[Len(sub2'.seen)].path]_vars

\* C26: as in the usage synopsis, a publisher made with
\* NewPublisher(dir, TestEvent{}) accepts Publish(e) for e a pointer to a
\* TestEvent: the call returns an identity and a nil error and the event is
\* written.
C26_PointerAccepted ==
  \A p \in Pubs :
    (/\ pubs[p].stype = "TestEvent"
     /\ pubs[p].ev.type = "*TestEvent"
     /\ pubs[p].pc = "idle")
    => /\ pubs[p].res = "nil"
       /\ fs[pubs[p].id].body = Marshal(pubs[p].ev.rec)

\* C27: if another writer creates the file for the chosen identity between
\* the existence check and the write, the publish does not report success:
\* it returns a write error.
C27_RaceGivesWriteError ==
  \A p \in Pubs :
    (pubs[p].raced /\ pubs[p].pc = "idle") => pubs[p].res # "nil"

\* C28 as stated: on the Close path the goroutine unregisters from notify,
\* then sets the terminal error, then signals completion; so whenever the
\* completion signal has fired the subscriber is no longer registered.
C28_UnregisteredWhenDone == done => ~watched

\* C28 as the code has it: the terminal error is set first, then the
\* completion signal fires while the channel is still registered, and the
\* deferred notify.Stop unregisters last; once watch has returned the
\* signal has fired and the subscriber is no longer registered.
C28_StopComesLast ==
  [][/\ (~done /\ done') => (watched' /\ err' = err /\ pc = "closedone")
     /\ (watched /\ ~watched') => (done /\ pc' = "returned")
     /\ pc' = "returned" => (done' /\ ~watched')]_vars

\* After one Close the completion signal has fired with a nil error while
\* the channel is still registered and holds a notification.
C28_Witness ==
  /\ hist.closes = 1
  /\ done
  /\ err = Nil
  /\ watched
  /\ pc = "stop"
  /\ c # <<>>

\* C29: terminal states are absorbing: once the completion signal has fired
\* the goroutine has stopped for good (it pushes nothing more and only
\* returns) and the terminal error never changes again, whatever Close
\* calls, notifications or publishes happen later.
C29_TerminalAbsorbing ==
  [][done =>
       /\ done'
       /\ err' = err
       /\ hist'.pushed = hist.pushed
       /\ hist'.doneCloses = hist.doneCloses
       /\ Len(queue') <= Len(queue)
       /\ pc \in {"stop", "returned"}
       /\ pc' \in {"stop", "returned"}]_vars

\* The signal fired with an error and the goroutine has returned, in a run
\* in which Close was called once and an event was published.
C29_Witness ==
  /\ done
  /\ err # Nil
  /\ pc = "returned"
  /\ hist.closes = 1
  /\ errch.closed
  /\ ~panicked
  /\ lastPub.err = "nil"

\* C30: NewStream is idempotent: called for a stream directory that already
\* exists as a directory it succeeds, returns a stream with the same
\* directory and event type as the calls before it, and changes nothing on
\* disk: only the existence check is performed.
C30_NewStreamIdempotent ==
  [][\A k \in Ctors :
       (/\ ctor[k].pc = "idle"
        /\ ctor'[k] # ctor[k]
        /\ ctor'[k].event # "nil"
        /\ dirst.kind = "dir"
        /\ dirst.deny # "stat")
       => /\ ctor'[k].pc = "idle"
          /\ ctor'[k].res = "nil"
          /\ ctor'[k].stream
          /\ ~ctor'[k].made
          /\ dirst' = dirst
          /\ fs' = fs
          /\ \A q \in Ctors :
               (ctor[q].pc = "idle" /\ ctor[q].stream)
               => /\ ctor'[k].sdir = ctor[q].sdir
                  /\ ctor'[k].event = ctor[q].event]_vars

\* One caller created the directory; the other, called after it, found it
\* and got a stream for the same directory without creating anything.
C30_Witness ==
  /\ ctor["k1"].stream /\ ctor["k1"].made
  /\ ctor["k2"].stream /\ ~ctor["k2"].made
  /\ ctor["k2"].saw = "dir"
  /\ ctor["k2"].sdir = ctor["k1"].sdir
  /\ ctor["k2"].sdir # <<>>
  /\ dirst.kind = "dir"

\* The calls to Subscribe that returned nil.
Succeeded == {i \in 1..Len(hist.subscribes) : hist.subscribes[i] = "ok"}

\* C25: with a separate Subscribe step, at most one call to Subscribe ever
\* succeeds: every call made after a call that returned successfully
\* panics, also when the subscription has since been closed or has errored
\* out, and a call that failed to register the watch does not mark the
\* subscriber as opened.
C25_SubscribeOnce ==
  /\ Cardinality(Succeeded) <= 1
  /\ opened <=> Succeeded # {}
  /\ \A i, j \in 1..Len(hist.subscribes) :
       (i < j /\ hist.subscribes[i] = "ok") => hist.subscribes[j] = "panic"
  /\ \A i, j \in 1..Len(hist.subscribes) :
       (i < j /\ hist.subscribes[j] = "ok") => hist.subscribes[i] = "error"
  /\ (hist.subscribes # <<>> /\ hist.subscribes[Len(hist.subscribes)] = "panic")
     => panicked

\* A first call failed to register, the second succeeded; the subscription
\* errored out and was closed, its goroutine returned, and a third call
\* panicked.
C25_Witness ==
  /\ hist.subscribes = <<"error", "ok", "panic">>
  /\ done
  /\ err # Nil
  /\ pc = "returned"
  /\ hist.closes = 1

\* The events the delivery task pushed onto the queue, in push order.
PushedEvents == [i \in 1..Len(hist.pushed) |-> hist.pushed[i].e]

\* C24: the callback helper passes every event the delivery task pushed onto
\* the queue to the callback exactly once and in queue order; events that
\* are on the queue when the completion signal fires are still passed on
\* before the helper's loop exits.
C24_CallbackGetsEveryEvent ==
  /\ Len(cb.passed) <= Len(PushedEvents)
  /\ cb.passed = SubSeq(PushedEvents, 1, Len(cb.passed))
  /\ cb.pc = "returned" => cb.passed = PushedEvents

\* The entries of the stream directory that are regular files.
RegularNames == {n \in Names : fs[n] # NoFile /\ fs[n].mode # "dir"}

\* How often x occurs in the sequence q.
Count(q, x) == Cardinality({i \in 1..Len(q) : q[i] = x})

\* The sequences a and b hold the same elements, each as often.
Permutation(a, b) ==
  /\ Len(a) = Len(b)
  /\ \A i \in 1..Len(a) : Count(a, a[i]) = Count(b, a[i])

\* C21: Dump returns exactly one Event per regular file of the stream
\* directory, its ID the file name and its Data the decoded body, ignores
\* entries that are not regular files, and returns an error and no events
\* at all if reading or decoding any single file fails.
C21_DumpEveryRegularFile ==
  [][(dumped' # dumped /\ dumped'.op = "Dump" /\ StatDir(dirst) = "dir") =>
       IF \E n \in RegularNames : ~ReadOK(fs[n]) \/ ~UnmarshalOK(fs[n].body)
       THEN dumped'.err # Nil /\ dumped'.es = <<>>
       ELSE /\ dumped'.err = Nil
            /\ Len(dumped'.es) = Cardinality(RegularNames)
            /\ {dumped'.es[i] : i \in 1..Len(dumped'.es)} =
                 {[ID |-> n, Data |-> [Text |-> fs[n].body[5]]] : n \in RegularNames}]_vars

\* Dump returned the two events of a directory that also holds a
\* subdirectory.
C21_Witness ==
  /\ dumped.op = "Dump"
  /\ dumped.err = Nil
  /\ Len(dumped.es) = 2
  /\ dumped.entries = <<SubName, IDs[1], IDs[2]>>
  /\ fs[SubName].mode = "dir"

\* C22: DumpSorted and DumpSortedReverse called for a record type that does
\* not implement IndexedEvent panic rather than return a result, however
\* many events the directory holds, zero and one included.
C22_SortedPanicsWithoutLess ==
  (/\ dumped.op \in {"DumpSorted", "DumpSortedReverse"}
   /\ ~Indexed(dumped.etype)
   /\ dumped.err = Nil)
  => dumped.panic

\* No adjacent pair of q has its later event strictly Less than its earlier
\* one.
Ascending(q) ==
  \A i \in 1..(Len(q) - 1) : ~(Rank(q[i + 1].Data.Text) < Rank(q[i].Data.Text))

\* No adjacent pair of q has its earlier event strictly Less than its later
\* one.
Descending(q) ==
  \A i \in 1..(Len(q) - 1) : ~(Rank(q[i].Data.Text) < Rank(q[i + 1].Data.Text))

\* No two events of q are equal under Less.
NoTies(q) ==
  \A i, j \in 1..Len(q) : i # j => Rank(q[i].Data.Text) # Rank(q[j].Data.Text)

\* The sequence q back to front.
Mirror(q) == [i \in 1..Len(q) |-> q[Len(q) + 1 - i]]

\* C23: for a record type implementing IndexedEvent, DumpSorted returns a
\* permutation of the events Dump returns with no adjacent pair whose later
\* event is strictly Less than the earlier one, and DumpSortedReverse
\* returns the same events in the opposite order: no adjacent pair whose
\* earlier event is strictly Less than the later one, and, when no two
\* events are equal under Less, DumpSorted's result back to front.
C23_SortedByLess ==
  (/\ dumped.op \in {"DumpSorted", "DumpSortedReverse"}
   /\ Indexed(dumped.etype)
   /\ dumped.err = Nil)
  => /\ ~dumped.panic
     /\ Permutation(dumped.es, dumped.base)
     /\ dumped.op = "DumpSorted" => Ascending(dumped.es)
     /\ dumped.op = "DumpSortedReverse" =>
          /\ Descending(dumped.es)
          /\ NoTies(dumped.base) =>
               dumped.es = Mirror(insertionSort(dumped.base, 2, FALSE))

\* DumpSortedReverse moved the one smaller event of three, two of them equal
\* under Less, from the front to the back.
C23_Witness ==
  /\ dumped.op = "DumpSortedReverse"
  /\ dumped.etype = "sortableEvent"
  /\ dumped.err = Nil
  /\ Len(dumped.es) = 3
  /\ dumped.es # dumped.base
  /\ dumped.base[1].Data.Text = "bazqux"
  /\ dumped.es[3] = dumped.base[1]

\* C31: no interleaving of a consumer's Close with the delivery goroutine
\* crashes the program: with a single Close call nothing panics, so the
\* goroutine never sends its error on the already closed s.errch.
C31_CloseNeverCrashes == hist.closes <= 1 => ~panicked

\* C32: the delivery goroutine never blocks forever on its own one-slot
\* error channel: it is never at `s.errch <- err` with the open channel's
\* slot still holding the error of an earlier failure, which nobody but the
\* goroutine itself would receive.
C32_NeverBlockedOnErrch ==
  ~(pc = "senderr" /\ ~errch.closed /\ Len(errch.buf) = errchCap)

\* C33: after the completion signal has fired no event is pushed onto the
\* delivery queue: from then on every step leaves the record of pushes as
\* it is and either leaves the queue alone or takes its first event off.
C33_NoPushAfterDone ==
  [][done => /\ hist'.pushed = hist.pushed
             /\ queue' = queue \/ (queue # <<>> /\ queue' = Tail(queue))]_vars

\* Done has fired after two pushes, the consumer has taken one of the two
\* events, and a notification that arrived since is still waiting.
C33_Witness ==
  /\ done
  /\ Len(hist.pushed) = 2
  /\ queue = <<hist.pushed[2].e>>
  /\ c # <<>>

\* C34: the delivery goroutine never drops an event it has decoded. The
\* queue never holds more than its capacity; while it holds an event for
\* the queue the goroutine either waits with it or, the queue having room,
\* appends it; and every notification the buffer accepted is still in the
\* buffer, in the goroutine's hands or has been pushed.
C34_DecodedNeverDropped ==
  [][/\ Len(queue') <= defaultBufferSize
     /\ pc = "sendqueue" =>
          \/ pc' = "sendqueue" /\ tmp' = tmp /\ hist'.pushed = hist.pushed
          \/ /\ Len(queue) < defaultBufferSize
             /\ queue' = Append(queue, tmp.e)
             /\ Len(hist'.pushed) = Len(hist.pushed) + 1
     /\ Len(hist'.pushed) + Len(c') + (IF pc' \in {"decode", "sendqueue"} THEN 1 ELSE 0)
          = Cardinality({i \in 1..Len(hist'.reported) : hist'.reported[i].accepted})]_vars

\* The queue holds its full capacity, the goroutine waits with the next
\* decoded event and a further notification waits in the buffer.
C34_Witness ==
  /\ pc = "sendqueue"
  /\ Len(queue) = defaultBufferSize
  /\ tmp.e # NoEvent
  /\ c # <<>>

\* C35: two concurrent constructions for the same directory and type,
\* started when the stream directory does not exist yet, both succeed: when
\* both callers' existence checks found nothing, nothing is denied and
\* nobody else touched the path, both calls return a stream.
C35_ConcurrentConstructionsSucceed ==
  (/\ dirst.setups <= 1
   /\ dirst.deny = "none"
   /\ \A k \in Ctors :
        ctor[k].pc = "idle" /\ ctor[k].calls = 1 /\ ctor[k].saw = "notexist")
  => \A k \in Ctors : ctor[k].res = "nil" /\ ctor[k].stream

\* C36: the bulk reads Dump, DumpSorted, DumpSortedReverse and Fetch are
\* read-only: whatever the state of the file system, the stream directory
\* missing included, a call leaves the directory's path and its files as
\* they were.
C36_ReadsChangeNothing ==
  [][(dumped' # dumped \/ rd' # rd) => (dirst' = dirst /\ fs' = fs)]_vars

\* C37: readers never observe a half-published event: a Fetch of a file
\* that is there and a Dump, running while events are being published,
\* return no error, and the Data they return is the record whose
\* publication created the file.
C37_NoHalfPublishedEvent ==
  [][/\ (rd' # rd /\ fs[rd'.id] # NoFile) =>
          /\ rd'.err = Nil
          /\ \E p \in Pubs : pubs[p].id = rd'.id /\ rd'.e.Data = pubs[p].ev.rec
     /\ dumped' # dumped => dumped'.err = Nil]_vars

\* C38: the callback helper's event loop always terminates: when the helper
\* has returned an error because the subscription could not be set up, no
\* loop is left running, and once the completion signal has fired a loop
\* that is still running can take its exit.
C38_HelperLoopTerminates ==
  /\ (hist.subscribes # <<>> /\ hist.subscribes[Len(hist.subscribes)] = "error")
       => cb.pc \in {"none", "returned"}
  /\ (done /\ cb.pc = "select") => ENABLED CbDone

====
